---- MODULE Spec2Model ----
(***************************************************************************)
(* A model of the workout recommendation engine (src/src/recommender.py):  *)
(* the WorkoutRecommender object (exercise catalog, template store), the   *)
(* UserProfile object handed to it, and generate_workout_plan with every   *)
(* stage it calls.  Python dicts whose iteration order matters are         *)
(* sequences of key/value entries; lists used only for membership tests    *)
(* are sets.                                                               *)
(***************************************************************************)
EXTENDS Integers, Sequences, FiniteSets, TLC

VARIABLES
    exercises,          \* self.exercises, the catalog loaded by __init__
    templates,          \* self.templates, the template store
    initial_templates,  \* self.templates as __init__ left it
    user,               \* the UserProfile object the caller holds
    last                \* the latest operation: its inputs and what it gave back

vars == <<exercises, templates, initial_templates, user, last>>

(***************************************************************************)
(* Bounds of the model.                                                    *)
(***************************************************************************)
\* number of records the engine may append to one UserProfile object
MaxCalls == 2
\* seeds of the random source range over 0..MaxSeed
MaxSeed == 2
\* number of calls of one stage in a row on one engine
MaxStageCalls == 3
\* counts of a frequency-form structure range over 0..MaxCount
MaxCount == 3
\* number of records in a history handed to the scorer
MaxHistory == 2

Seeds == 0..MaxSeed

(***************************************************************************)
(* Small helpers on sequences.                                             *)
(***************************************************************************)
Range(s) == {s[i] : i \in 1..Len(s)}

Min2(a, b) == IF a <= b THEN a ELSE b

RECURSIVE SumSeq(_)
SumSeq(s) == IF s = <<>> THEN 0 ELSE Head(s) + SumSeq(Tail(s))

(***************************************************************************)
(* Values a template structure can hold: a workout type (string), a count  *)
(* (int), or None.                                                         *)
(***************************************************************************)
StrV(x) == [kind |-> "str", s |-> x, n |-> 0]
IntV(c) == [kind |-> "int", s |-> "", n |-> c]
NoneV == [kind |-> "none", s |-> "", n |-> 0]

IsStr(v, x) == v.kind = "str" /\ v.s = x

\* dict access on an ordered mapping (sequence of [k, v] entries)
HasKey(d, key) == \E i \in 1..Len(d) : d[i].k = key

DictGet(d, key, default) ==
    IF HasKey(d, key)
    THEN d[CHOOSE i \in 1..Len(d) : d[i].k = key].v
    ELSE default

\* d[key] = val: overwrite in place, or insert at the end
DictSet(d, key, val) ==
    IF HasKey(d, key)
    THEN [i \in 1..Len(d) |-> IF d[i].k = key THEN [k |-> key, v |-> val] ELSE d[i]]
    ELSE Append(d, [k |-> key, v |-> val])

days == <<"Monday", "Tuesday", "Wednesday", "Thursday", "Friday", "Saturday", "Sunday">>

DayMap(mo, tu, we, th, fr, sa, su) ==
    << [k |-> "Monday", v |-> StrV(mo)], [k |-> "Tuesday", v |-> StrV(tu)],
       [k |-> "Wednesday", v |-> StrV(we)], [k |-> "Thursday", v |-> StrV(th)],
       [k |-> "Friday", v |-> StrV(fr)], [k |-> "Saturday", v |-> StrV(sa)],
       [k |-> "Sunday", v |-> StrV(su)] >>

(***************************************************************************)
(* The exercise catalog.                                                   *)
(***************************************************************************)
Ex(nm, ty, mg, eq, it, df, ir, alt) ==
    [name |-> nm, exercise_type |-> ty, muscle_groups |-> mg,
     equipment_needed |-> eq, intensity |-> it, difficulty |-> df,
     injury_restrictions |-> ir, alternatives |-> alt,
     sets |-> <<>>, reps |-> <<>>, rest_period |-> <<>>]

\* _get_default_exercises: the 8 built-in exercises
default_exercises ==
    << Ex("Dumbbell Thrusters", "Strength", {"Legs", "Shoulders"}, {"Dumbbells"},
          "High", "Intermediate", {"Shoulder Issue"}, <<"Bodyweight Squats">>),
       Ex("Step-Ups", "Strength", {"Legs"}, {"Step"},
          "Moderate", "Beginner", {"Knee Injury"}, <<"Bodyweight Squats">>),
       Ex("Resistance Band Rows", "Strength", {"Back"}, {"Resistance Bands"},
          "Moderate", "Beginner", {"Shoulder Issue"}, <<"Seated Rows">>),
       Ex("Stationary Bike", "Cardio", {"Legs"}, {"Stationary Bike"},
          "Moderate", "Beginner", {"Knee Injury"}, <<"Swimming">>),
       Ex("Swimming", "Cardio", {"Full Body"}, {"Pool"},
          "Moderate", "Beginner", {}, <<"Water Aerobics">>),
       Ex("Bodyweight Squats", "Strength", {"Legs"}, {},
          "Low", "Beginner", {}, <<"Wall Sit">>),
       Ex("Plank", "Core", {"Core"}, {},
          "Low", "Beginner", {}, <<"Side Plank">>),
       Ex("Elliptical", "Cardio", {"Full Body"}, {"Elliptical"},
          "Moderate", "Beginner", {"Knee Injury"}, <<"Rowing Machine">>) >>

\* a catalog as exercises.json may supply it: bodyweight exercises that carry
\* injury restrictions, and one exercise with explicit sets and reps
loaded_exercises ==
    << Ex("Jump Squats", "Strength", {"Legs"}, {},
          "High", "Intermediate", {"Knee Injury"}, <<"Wall Sit">>),
       Ex("Step-Ups", "Strength", {"Legs"}, {"Step"},
          "Moderate", "Beginner", {"Knee Injury"}, <<"Bodyweight Squats">>),
       [Ex("Burpees", "HIIT", {"Full Body", "Core"}, {},
           "High", "Advanced", {"Knee Injury"}, <<>>)
          EXCEPT !.sets = <<3>>, !.reps = <<10>>] >>

Catalogs == {default_exercises, loaded_exercises, <<>>}

\* a catalog as exercises.json may supply it: exercises that ask for more than
\* one piece of equipment
gym_exercises ==
    << Ex("Barbell Bench Press", "Strength", {"Chest"}, {"Barbell", "Bench"},
          "High", "Intermediate", {"Shoulder Issue"}, <<"Push-Ups">>),
       Ex("Push-Ups", "Strength", {"Chest"}, {},
          "Moderate", "Beginner", {}, <<>>),
       Ex("Dumbbell Step-Ups", "Strength", {"Legs"}, {"Dumbbells", "Step"},
          "Moderate", "Beginner", {"Knee Injury"}, <<"Bodyweight Squats">>) >>

\* alphabetical order of the exercise names (Python compares str by code point)
NameOrder ==
    << "Barbell Bench Press", "Bodyweight Squats", "Burpees", "Dumbbell Step-Ups",
       "Dumbbell Thrusters", "Elliptical", "Jump Squats", "Plank", "Push-Ups",
       "Resistance Band Rows", "Stationary Bike", "Step-Ups", "Swimming" >>

NameRank(nm) == CHOOSE i \in 1..Len(NameOrder) : NameOrder[i] = nm

(***************************************************************************)
(* 4.1 Safety and availability filter.                                     *)
(***************************************************************************)
\* _filter_exercises_by_injury
_filter_exercises_by_injury(exs, injuries) ==
    SelectSeq(exs, LAMBDA e : e.injury_restrictions \cap injuries = {})

\* variant with the equipment test dropped: every safe exercise stays
filter_by_equipment_keeps_all(exs, equipment) == exs

\* variant that keeps an exercise only when the user owns every item it asks for
filter_by_equipment_needs_all(exs, equipment) ==
    SelectSeq(exs, LAMBDA e : e.equipment_needed \subseteq equipment)

\* _filter_exercises_by_equipment
_filter_exercises_by_equipment(exs, equipment) ==
    SelectSeq(exs, LAMBDA e : \/ e.equipment_needed = {}
                              \/ e.equipment_needed \cap equipment # {})

\* generate_workout_plan, "Fallback to bodyweight exercises if no equipment
\* matches": the pool is drawn from self.exercises
BodyweightFallback(catalog, safe) ==
    SelectSeq(catalog, LAMBDA e : e.equipment_needed = {})

AvailableExercises(catalog, injuries, equipment) ==
    LET safe == _filter_exercises_by_injury(catalog, injuries)
        available == _filter_exercises_by_equipment(safe, equipment)
    IN  IF available = <<>> THEN BodyweightFallback(catalog, safe) ELSE available

(***************************************************************************)
(* Workout records (last_workout, entries of past_workouts).  A value     *)
(* that is not a mapping (kind # "dict") has no .get; satisfaction is <<>> *)
(* when the key is missing.                                                *)
(***************************************************************************)
Rec(c, ty, sat, it) ==
    [kind |-> "dict", completed |-> c, workout_type |-> ty, satisfaction |-> sat,
     intensity |-> it]

\* a value that is no mapping: a str, or Python's None
NotADict(kind) ==
    [kind |-> kind, completed |-> FALSE, workout_type |-> "", satisfaction |-> <<>>,
     intensity |-> ""]

None == NotADict("none")

(***************************************************************************)
(* 4.2 Preference scorer (_apply_user_preferences).  Scores are kept in    *)
(* half points, so that the +0.5 bonus is the integer 1.                   *)
(***************************************************************************)
\* variant that builds the lookup tables from every record, completed or not
counts_every_record(w) == TRUE

\* "if workout.get('completed')": the records the lookup tables are built from
CountsForSatisfaction(w) == w.completed

\* workout.get('satisfaction', 3)
SatisfactionOf(w) == IF w.satisfaction = <<>> THEN 3 ELSE w.satisfaction[1]

\* the satisfaction lists of type_satisfaction / intensity_satisfaction
TypeScores(past, ty) ==
    LET sel == SelectSeq(past, LAMBDA w : CountsForSatisfaction(w) /\ w.workout_type # ""
                                          /\ w.workout_type = ty)
    IN  [i \in 1..Len(sel) |-> SatisfactionOf(sel[i])]

IntensityScores(past, it) ==
    LET sel == SelectSeq(past, LAMBDA w : CountsForSatisfaction(w) /\ w.intensity # ""
                                          /\ w.intensity = it)
    IN  [i \in 1..Len(sel) |-> SatisfactionOf(sel[i])]

\* bonus for an average sum(scores)/len(scores): >= 4 gives +2, >= 3 gives +1
SatisfactionBonus(scores) ==
    IF scores = <<>> THEN 0
    ELSE IF SumSeq(scores) >= 4 * Len(scores) THEN 4
    ELSE IF SumSeq(scores) >= 3 * Len(scores) THEN 2
    ELSE 0

\* the score of one exercise, in half points
Score(e, preferred_types, fitness_level, past) ==
      (IF e.exercise_type # "" /\ e.exercise_type \in preferred_types THEN 4 ELSE 0)
    + (IF e.difficulty = fitness_level THEN 2 ELSE 0)
    + (IF e.sets # <<>> /\ e.reps # <<>> /\ e.sets[1] # 0 /\ e.reps[1] # 0 THEN 1 ELSE 0)
    + SatisfactionBonus(IntensityScores(past, e.intensity))
    + SatisfactionBonus(TypeScores(past, e.exercise_type))
    + (IF \/ fitness_level = "Beginner" /\ e.intensity = "Low"
          \/ fitness_level = "Intermediate" /\ e.intensity = "Moderate"
          \/ fitness_level = "Advanced" /\ e.intensity = "High"
       THEN 2 ELSE 0)

\* variant whose tie-break puts the names in alphabetical order
key_greater_name_ascending(a, b) ==
    \/ a.score > b.score
    \/ a.score = b.score /\ NameRank(a.ex.name) < NameRank(b.ex.name)

\* sorted(..., key=(score, name), reverse=True): a comes strictly before b
KeyGreater(a, b) ==
    \/ a.score > b.score
    \/ a.score = b.score /\ NameRank(a.ex.name) > NameRank(b.ex.name)

\* insert x into the descending sequence s, after the entries with an equal key
InsertDesc(s, x) ==
    LET before == {i \in 1..Len(s) : ~KeyGreater(x, s[i])}
        n == Cardinality(before)
    IN  SubSeq(s, 1, n) \o <<x>> \o SubSeq(s, n + 1, Len(s))

RECURSIVE SortDesc(_)
SortDesc(s) ==
    IF s = <<>> THEN <<>>
    ELSE InsertDesc(SortDesc(SubSeq(s, 1, Len(s) - 1)), s[Len(s)])

\* workout.get(...) on a record that is no mapping raises AttributeError; the
\* loop over past_workouts is reached only with a non-empty exercise list
ScorerRaises(exs, past) ==
    exs # <<>> /\ \E i \in 1..Len(past) : past[i].kind # "dict"

_apply_user_preferences(exs, preferred_types, fitness_level, past) ==
    LET scored == [i \in 1..Len(exs) |->
                      [score |-> Score(exs[i], preferred_types, fitness_level, past),
                       ex |-> exs[i]]]
        sorted == SortDesc(scored)
    IN  [i \in 1..Len(sorted) |-> sorted[i].ex]

(***************************************************************************)
(* 4.3 Categories and the muscle-group balancer.                           *)
(***************************************************************************)
\* _categorize_exercises: exercise_type -> the exercises of that type, in order
_categorize_exercises(exs) ==
    [ty \in {exs[i].exercise_type : i \in 1..Len(exs)} |->
        SelectSeq(exs, LAMBDA e : e.exercise_type = ty)]

\* exercises_by_type.get(workout_type, [])
ByTypeGet(by_type, ty) == IF ty \in DOMAIN by_type THEN by_type[ty] ELSE <<>>

\* the greedy pass: indices of the accepted exercises among exs[1..n]
RECURSIVE Accepted(_, _)
Accepted(exs, n) ==
    IF n = 0 THEN {}
    ELSE LET acc == Accepted(exs, n - 1)
             claimed == UNION {exs[i].muscle_groups : i \in acc}
         IN  IF exs[n].muscle_groups \cap claimed = {} THEN acc \cup {n} ELSE acc

\* variant that leaves out the exercises the greedy pass did not accept
balance_category_accepted_only(exs) ==
    LET acc == Accepted(exs, Len(exs))
        idx == [i \in 1..Len(exs) |-> i]
        first == SelectSeq(idx, LAMBDA i : i \in acc)
    IN  [j \in 1..Len(first) |-> exs[first[j]]]

\* the body of the loop of _balance_muscle_groups: one category
BalanceCategory(exs) ==
    LET acc == Accepted(exs, Len(exs))
        idx == [i \in 1..Len(exs) |-> i]
        first == SelectSeq(idx, LAMBDA i : i \in acc)
        balanced_exercises == [j \in 1..Len(first) |-> exs[first[j]]]
        remaining == SelectSeq(exs, LAMBDA e : e \notin Range(balanced_exercises))
    IN  balanced_exercises \o remaining

_balance_muscle_groups(categorized) ==
    [ty \in DOMAIN categorized |-> BalanceCategory(categorized[ty])]

(***************************************************************************)
(* Templates.  A stored template is [goal, is_dict, structure]: is_dict    *)
(* says whether its "structure" value is a mapping at all.                 *)
(***************************************************************************)
Template(g, st) == [goal |-> g, is_dict |-> TRUE, structure |-> st]

\* the structure of default_template in _get_workout_template, and of the
\* single template _load_templates falls back to
default_structure ==
    DayMap("Strength", "Cardio", "Core", "Strength", "Cardio", "Flexibility", "Rest")

default_templates == << Template("General Fitness", default_structure) >>

\* a store as workout_templates.json may supply it: two templates for the same
\* goal, a day mapping that leaves days out, a frequency-form template and a
\* template without a structure
loaded_templates ==
    << Template("Muscle Gain",
                DayMap("Strength", "Strength", "Strength", "Rest", "Strength", "Rest", "Rest")),
       Template("Muscle Gain",
                DayMap("Strength", "Rest", "Strength", "Cardio", "Strength", "Rest", "Rest")),
       Template("General Fitness",
                << [k |-> "Monday", v |-> StrV("Strength")],
                   [k |-> "Thursday", v |-> StrV("HIIT")],
                   [k |-> "Friday", v |-> StrV("Cardio")] >>),
       Template("Weight Loss",
                << [k |-> "HIIT", v |-> IntV(3)], [k |-> "Cardio", v |-> IntV(2)],
                   [k |-> "Strength", v |-> IntV(1)], [k |-> "Flexibility", v |-> IntV(1)] >>),
       [goal |-> "Endurance", is_dict |-> FALSE, structure |-> <<>>] >>

Stores == {default_templates, loaded_templates}

\* a store without a General Fitness template
muscle_gain_templates ==
    << Template("Muscle Gain",
                DayMap("Strength", "Rest", "Strength", "Rest", "Strength", "Cardio", "Rest")) >>

\* a store whose General Fitness template names none of Monday, Tuesday and
\* Wednesday, before a template for another goal
late_week_templates ==
    << Template("General Fitness",
                << [k |-> "Thursday", v |-> StrV("Strength")],
                   [k |-> "Saturday", v |-> StrV("Cardio")] >>),
       Template("Weight Loss",
                DayMap("HIIT", "Cardio", "Rest", "HIIT", "Cardio", "Strength", "Rest")) >>

(***************************************************************************)
(* 4.4 Template resolver (_get_workout_template).                          *)
(***************************************************************************)
\* variant that searches the store front to back: the first match wins
first_with_goal(store, goal) ==
    LET hits == {i \in 1..Len(store) : store[i].goal = goal}
    IN  IF hits = {} THEN 0 ELSE CHOOSE i \in hits : \A j \in hits : i <= j

\* index of the last stored template for the goal; 0 when there is none
LastWithGoal(store, goal) ==
    LET hits == {i \in 1..Len(store) : store[i].goal = goal}
    IN  IF hits = {} THEN 0 ELSE CHOOSE i \in hits : \A j \in hits : j <= i

\* the stored template the resolver copies: exact goal, then General Fitness,
\* then none (0: the built-in default)
ResolveIndex(store, goal) ==
    IF LastWithGoal(store, goal) # 0 THEN LastWithGoal(store, goal)
    ELSE LastWithGoal(store, "General Fitness")

\* variant that keeps every structure that is a mapping, weekday key or not
keeps_any_mapping(t) == t.is_dict

\* the structure is kept only when it is a mapping with one of these keys
KeepsStructure(t) ==
    t.is_dict /\ \E d \in {"Monday", "Tuesday", "Wednesday"} : HasKey(t.structure, d)

\* The result is a shallow copy (t.copy()): its structure is the very dict
\* object of the stored template unless it was replaced by the default's.
\* shared is the index of the stored template that owns the structure object
\* (0: a fresh object).
_get_workout_template(store, goal) ==
    LET i == ResolveIndex(store, goal)
    IN  IF i # 0 /\ KeepsStructure(store[i])
        THEN [goal |-> store[i].goal, structure |-> store[i].structure, shared |-> i]
        ELSE [goal |-> IF i # 0 THEN store[i].goal ELSE "General Fitness",
              structure |-> default_structure, shared |-> 0]

(***************************************************************************)
(* 4.5 Template adapter (_adapt_template_to_preferences).                  *)
(***************************************************************************)
RestKeys(structure) ==
    SelectSeq([i \in 1..Len(structure) |-> i], LAMBDA i : IsStr(structure[i].v, "Rest"))

\* variant of the Advanced rule that keeps the first Rest day, not the last
level_rule_keeps_first_rest(structure, fitness_level) ==
    LET rest_days == RestKeys(structure)
    IN  IF fitness_level = "Beginner"
        THEN IF Len(rest_days) < 2
             THEN DictSet(structure, "Wednesday", StrV("Rest"))
             ELSE structure
        ELSE IF fitness_level = "Advanced" /\ Len(rest_days) > 1
        THEN [i \in 1..Len(structure) |->
                 IF i \in Range(SubSeq(rest_days, 2, Len(rest_days)))
                 THEN [k |-> structure[i].k, v |-> StrV("Active Recovery")]
                 ELSE structure[i]]
        ELSE structure

\* variant of the Beginner rule that also fires on a week with 2 Rest days
level_rule_beginner_up_to_two(structure, fitness_level) ==
    LET rest_days == RestKeys(structure)
    IN  IF fitness_level = "Beginner"
        THEN IF Len(rest_days) <= 2
             THEN DictSet(structure, "Wednesday", StrV("Rest"))
             ELSE structure
        ELSE IF fitness_level = "Advanced" /\ Len(rest_days) > 1
        THEN [i \in 1..Len(structure) |->
                 IF i \in Range(SubSeq(rest_days, 1, Len(rest_days) - 1))
                 THEN [k |-> structure[i].k, v |-> StrV("Active Recovery")]
                 ELSE structure[i]]
        ELSE structure

\* the fitness-level rule
LevelRule(structure, fitness_level) ==
    LET rest_days == RestKeys(structure)
    IN  IF fitness_level = "Beginner"
        THEN IF Len(rest_days) < 2
             THEN DictSet(structure, "Wednesday", StrV("Rest"))
             ELSE structure
        ELSE IF fitness_level = "Advanced" /\ Len(rest_days) > 1
        THEN [i \in 1..Len(structure) |->
                 IF i \in Range(SubSeq(rest_days, 1, Len(rest_days) - 1))
                 THEN [k |-> structure[i].k, v |-> StrV("Active Recovery")]
                 ELSE structure[i]]
        ELSE structure

\* variant that tries the Core rule before the Strength rule
preference_rule_core_first(entry, preferred_types) ==
    IF IsStr(entry.v, "Rest") \/ IsStr(entry.v, "Active Recovery") THEN entry
    ELSE IF "HIIT" \in preferred_types /\ entry.k \in {"Tuesday", "Thursday"}
    THEN [k |-> entry.k, v |-> StrV("HIIT")]
    ELSE IF "Core" \in preferred_types /\ IsStr(entry.v, "Strength")
    THEN [k |-> entry.k, v |-> StrV("Core")]
    ELSE IF "Strength" \in preferred_types /\ entry.k \in {"Monday", "Friday"}
    THEN [k |-> entry.k, v |-> StrV("Strength")]
    ELSE entry

\* the preference rule for one entry
PreferenceRule(entry, preferred_types) ==
    IF IsStr(entry.v, "Rest") \/ IsStr(entry.v, "Active Recovery") THEN entry
    ELSE IF "HIIT" \in preferred_types /\ entry.k \in {"Tuesday", "Thursday"}
    THEN [k |-> entry.k, v |-> StrV("HIIT")]
    ELSE IF "Strength" \in preferred_types /\ entry.k \in {"Monday", "Friday"}
    THEN [k |-> entry.k, v |-> StrV("Strength")]
    ELSE IF "Core" \in preferred_types /\ IsStr(entry.v, "Strength")
    THEN [k |-> entry.k, v |-> StrV("Core")]
    ELSE entry

\* the structure dict after the adapter has run on it
AdaptStructure(structure, preferred_types, fitness_level) ==
    LET levelled == LevelRule(structure, fitness_level)
    IN  [i \in 1..Len(levelled) |-> PreferenceRule(levelled[i], preferred_types)]

\* adapted = template.copy(); structure = template.get("structure"): the rules
\* assign into that dict object itself, so the edits reach whoever shares it
_adapt_template_to_preferences(template, preferred_types, fitness_level) ==
    [template EXCEPT !.structure = AdaptStructure(@, preferred_types, fitness_level)]

\* the template store after the adapter ran on a template resolved from it
StoreAfterAdapt(store, adapted) ==
    IF adapted.shared = 0 THEN store
    ELSE [store EXCEPT ![adapted.shared].structure = adapted.structure]

(***************************************************************************)
(* 4.6 Day-schedule builder.                                               *)
(***************************************************************************)
\* _optimize_schedule, from entry i on
RECURSIVE OptimizeFrom(_, _, _, _)
OptimizeFrom(schedule, i, rest_added, optimized) ==
    IF i > Len(schedule) THEN optimized
    ELSE LET workout == schedule[i]
             light == IsStr(workout, "Flexibility") \/ IsStr(workout, "Mobility")
         IN  IF (i - rest_added) % 3 = 0 /\ ~light
             THEN OptimizeFrom(schedule, i + 1, rest_added + 1,
                               optimized \o <<workout, StrV("Rest")>>)
             ELSE OptimizeFrom(schedule, i + 1, rest_added, Append(optimized, workout))

\* variant without the trim to 7 days
optimize_schedule_untrimmed(schedule) == OptimizeFrom(schedule, 1, 0, <<>>)

_optimize_schedule(schedule) ==
    LET optimized == OptimizeFrom(schedule, 1, 0, <<>>)
    IN  SubSeq(optimized, 1, Min2(7, Len(optimized)))

\* [workout_type] * count for every entry whose value is an int
RECURSIVE Expand(_)
Expand(structure) ==
    IF structure = <<>> THEN <<>>
    ELSE LET e == Head(structure)
         IN  (IF e.v.kind = "int" THEN [j \in 1..e.v.n |-> StrV(e.k)] ELSE <<>>)
             \o Expand(Tail(structure))

\* variant of the day-form branch that reads structure.get(day) without the
\* "Rest" default, so a day the structure leaves out gets None
create_day_schedule_no_default(template) ==
    [i \in 1..7 |-> DictGet(template.structure, days[i], NoneV)]

_create_day_schedule(template) ==
    LET structure == template.structure
    IN  IF \E i \in 1..7 : HasKey(structure, days[i])
        THEN [i \in 1..7 |-> DictGet(structure, days[i], StrV("Rest"))]
        ELSE LET schedule == Expand(structure)
                 remaining_days == 7 - Len(schedule)
             IN  _optimize_schedule(
                     schedule \o [j \in 1..(IF remaining_days > 0 THEN remaining_days ELSE 0)
                                     |-> StrV("Rest")])

(***************************************************************************)
(* 4.7 Progressive parameters, notes and the exercise selector.            *)
(***************************************************************************)
MinMax(lo, hi) == [min |-> lo, max |-> hi]

base_params(fitness_level) ==
    IF fitness_level = "Intermediate"
    THEN [sets |-> MinMax(3, 4), reps |-> MinMax(10, 15), rest |-> MinMax(45, 75)]
    ELSE IF fitness_level = "Advanced"
    THEN [sets |-> MinMax(3, 5), reps |-> MinMax(12, 20), rest |-> MinMax(30, 60)]
    ELSE [sets |-> MinMax(2, 3), reps |-> MinMax(8, 12), rest |-> MinMax(60, 90)]

\* variant in which the goal adjustment lands on the table twice, as it would
\* on the second call if the table outlived the first
progressive_parameters_adjusted_twice(fitness_level, goal) ==
    LET params == base_params(fitness_level)
    IN  IF goal = "Muscle Gain"
        THEN [params EXCEPT !.sets.min = @ + 2, !.rest.max = @ + 30]
        ELSE IF goal = "Endurance"
        THEN [params EXCEPT !.reps.min = @ + 8, !.reps.max = @ + 8, !.rest.max = @ - 30]
        ELSE params

\* base_params is rebuilt by every call, so the in-place goal adjustment
\* never outlives the call
_generate_progressive_parameters(fitness_level, goal) ==
    LET params == base_params(fitness_level)
    IN  IF goal = "Muscle Gain"
        THEN [params EXCEPT !.sets.min = @ + 1, !.rest.max = @ + 15]
        ELSE IF goal = "Endurance"
        THEN [params EXCEPT !.reps.min = @ + 4, !.reps.max = @ + 4, !.rest.max = @ - 15]
        ELSE params

\* a value of sets / reps / rest_period in a plan: a number of the catalog
\* record, or the range dict that params holds
ParamNumber(v) == [kind |-> "number", min |-> v, max |-> v]
ParamRange(r) == [kind |-> "range", min |-> r.min, max |-> r.max]

\* exercise.get(key, params.get(...))
ParamOf(own, range) == IF own # <<>> THEN ParamNumber(own[1]) ELSE ParamRange(range)

\* _generate_exercise_notes: the notes that "; ".join puts together, each note
\* a sequence of words
_generate_exercise_notes(e, injuries) ==
    LET alternative == <<"Alternative:">> \o
                       (IF e.alternatives = <<>> THEN <<"None">> ELSE e.alternatives)
        hits == Cardinality(injuries \cap e.injury_restrictions)
        notes == [j \in 1..hits |-> alternative]
                 \o (IF e.intensity = "High" THEN << <<"Monitor form carefully">> >> ELSE <<>>)
    IN  IF notes = <<>> THEN << <<"Perform with proper form">> >> ELSE notes

\* enhanced_exercise = exercise.copy() updated with sets, reps, rest_period, notes
Enhance(e, params, injuries) ==
    [name |-> e.name, exercise_type |-> e.exercise_type,
     muscle_groups |-> e.muscle_groups, equipment_needed |-> e.equipment_needed,
     intensity |-> e.intensity, difficulty |-> e.difficulty,
     injury_restrictions |-> e.injury_restrictions, alternatives |-> e.alternatives,
     sets |-> ParamOf(e.sets, params.sets),
     reps |-> ParamOf(e.reps, params.reps),
     rest_period |-> ParamOf(e.rest_period, params.rest),
     notes |-> _generate_exercise_notes(e, injuries)]

\* str.lower() on the workout and exercise types
Lower(t) ==
    CASE t = "Strength" -> "strength"
      [] t = "Resistance" -> "resistance"
      [] t = "HIIT" -> "hiit"
      [] t = "Cardio" -> "cardio"
      [] t = "Core" -> "core"
      [] t = "Flexibility" -> "flexibility"
      [] t = "Mobility" -> "mobility"
      [] OTHER -> t

\* variant whose Core days also accept exercises of type Core
type_mapping_core_accepts_core(workout_type) ==
    CASE workout_type = "Strength" -> {"Strength", "Resistance"}
      [] workout_type = "HIIT" -> {"HIIT", "Cardio"}
      [] workout_type = "Cardio" -> {"Cardio", "HIIT"}
      [] workout_type = "Core" -> {"Strength", "Core"}
      [] workout_type = "Flexibility" -> {"Flexibility", "Mobility"}
      [] workout_type = "Mobility" -> {"Mobility", "Flexibility"}
      [] OTHER -> {workout_type}

type_mapping(workout_type) ==
    CASE workout_type = "Strength" -> {"Strength", "Resistance"}
      [] workout_type = "HIIT" -> {"HIIT", "Cardio"}
      [] workout_type = "Cardio" -> {"Cardio", "HIIT"}
      [] workout_type = "Core" -> {"Strength"}
      [] workout_type = "Flexibility" -> {"Flexibility", "Mobility"}
      [] workout_type = "Mobility" -> {"Mobility", "Flexibility"}
      [] OTHER -> {workout_type}

\* type_exercises: the candidates of a day among the exercises handed over
TypeExercises(available, workout_type) ==
    SelectSeq(available,
              LAMBDA e : /\ Lower(e.exercise_type) \in
                               {Lower(t) : t \in type_mapping(workout_type)}
                         /\ ~(workout_type = "Core" /\ "Core" \notin e.muscle_groups))

\* The random source: a generator state x, advanced by every draw.
RngNext(x) == (5 * x + 1) % 8

\* variant drawing the count from 3..4
rand_count_3_to_4(x) == 3 + (x \div 4)

\* random.randint(2, 3) drawn from state x
RandCount(x) == 2 + (x \div 4)

\* random.sample(pool[1..m], k): draw an index below m, take it, move the
\* last element into its place
RECURSIVE Sample(_, _, _, _, _)
Sample(pool, m, k, x, result) ==
    IF k = 0 THEN [selected |-> result, rng |-> x]
    ELSE LET x1 == RngNext(x)
             j == (x1 % m) + 1
         IN  Sample([pool EXCEPT ![j] = pool[m]], m - 1, k - 1, x1, Append(result, pool[j]))

\* _select_exercises: [exercises, rng] for one day
_select_exercises(available, workout_type, params, injuries, x) ==
    LET type_exercises == TypeExercises(available, workout_type)
    IN  IF available = <<>> \/ type_exercises = <<>>
        THEN [exercises |-> <<>>, rng |-> x]
        ELSE LET x1 == RngNext(x)
                 num_exercises == Min2(RandCount(x1), Len(type_exercises))
                 drawn == Sample(type_exercises, Len(type_exercises), num_exercises, x1, <<>>)
             IN  [exercises |-> [i \in 1..Len(drawn.selected) |->
                                    Enhance(drawn.selected[i], params, injuries)],
                  rng |-> drawn.rng]

(***************************************************************************)
(* 4.8 Plan assembler.                                                     *)
(***************************************************************************)
\* one entry of plan: the day, its type and its exercises
DayEntry(day, type, exs) == [day |-> day, type |-> type, exercises |-> exs]

\* the loop of _generate_weekly_plan from day i on, threading the random source
RECURSIVE WeekFrom(_, _, _, _, _, _, _)
WeekFrom(by_type, day_schedule, params, injuries, i, x, plan) ==
    IF i > Len(days) THEN plan
    ELSE LET workout_type == IF i <= Len(day_schedule) THEN day_schedule[i]
                             ELSE StrV("Rest")
         IN  IF IsStr(workout_type, "Rest") \/ IsStr(workout_type, "Active Recovery")
             THEN WeekFrom(by_type, day_schedule, params, injuries, i + 1, x,
                           Append(plan, DayEntry(days[i], workout_type, <<>>)))
             ELSE LET available_for_type ==
                          IF workout_type.kind = "str"
                          THEN ByTypeGet(by_type, workout_type.s) ELSE <<>>
                      sel == _select_exercises(available_for_type, workout_type.s,
                                               params, injuries, x)
                  IN  WeekFrom(by_type, day_schedule, params, injuries, i + 1, sel.rng,
                               Append(plan, DayEntry(days[i], workout_type, sel.exercises)))

_generate_weekly_plan(by_type, template, params, injuries, x) ==
    WeekFrom(by_type, _create_day_schedule(template), params, injuries, 1, x, <<>>)

\* variant without the precondition check
last_workout_never_missing(last_workout) == FALSE

\* "if last_workout is None: raise ValueError"
LastWorkoutMissing(last_workout) == last_workout = None

\* user.past_workouts is [none, items]: none when the attribute holds None.
\* hasattr(user, 'past_workouts') is true of every UserProfile, so the list is
\* never created here, and None.append raises AttributeError
AppendRaises(u) == u.past_workouts.none

RecordLastWorkout(u, last_workout) ==
    [u EXCEPT !.past_workouts.items = Append(@, last_workout)]

\* what a call leaves behind and hands back:
\*   outcome   "plan", or the exception that leaves the call
\*   plan      <<the WorkoutPlan>>, or <<>> when the call raises
\*   user      the UserProfile object after the call
\*   templates self.templates after the call
\*   degraded  the except AttributeError branch has run
\*   adapted_template  <<the local adapted_template>>, or <<>> when unbound
Raise(exc, u, store, degraded) ==
    [outcome |-> exc, plan |-> <<>>, user |-> u, templates |-> store,
     degraded |-> degraded, adapted_template |-> <<>>]

generate_workout_plan(catalog, store, u, last_workout, seed) ==
    IF LastWorkoutMissing(last_workout) THEN Raise("ValueError", u, store, FALSE)
    ELSE IF AppendRaises(u) THEN Raise("AttributeError", u, store, FALSE)
    ELSE
    LET u1 == RecordLastWorkout(u, last_workout)
        available_exercises == AvailableExercises(catalog, u1.injuries, u1.equipment)
    IN  IF ScorerRaises(available_exercises, u1.past_workouts.items)
        THEN \* except AttributeError: template and balanced_exercises are set,
             \* adapted_template is not, and its use in Step 6 raises
             Raise("UnboundLocalError", u1, store, TRUE)
        ELSE
        LET preferred_exercises ==
                _apply_user_preferences(available_exercises, u1.preferred_workouts,
                                        u1.fitness_level, u1.past_workouts.items)
            balanced_exercises ==
                _balance_muscle_groups(_categorize_exercises(preferred_exercises))
            template == _get_workout_template(store, u1.goal)
            adapted_template ==
                _adapt_template_to_preferences(template, u1.preferred_workouts,
                                               u1.fitness_level)
            workout_params == _generate_progressive_parameters(u1.fitness_level, u1.goal)
            weekly_plan == _generate_weekly_plan(balanced_exercises, adapted_template,
                                                 workout_params, u1.injuries, seed)
        IN  [outcome |-> "plan",
             plan |-> << [user_id |-> u1.user_id, week_number |-> 1, days |-> weekly_plan] >>,
             user |-> u1,
             templates |-> StoreAfterAdapt(store, adapted_template),
             degraded |-> FALSE,
             adapted_template |-> <<adapted_template>>]

(***************************************************************************)
(* The callers' inputs.                                                    *)
(***************************************************************************)
\* UserProfile(...): the fields of data_models.UserProfile the engine reads
UserProfile(id, goal, level, injuries, preferred, equipment, past) ==
    [user_id |-> id, goal |-> goal, fitness_level |-> level, injuries |-> injuries,
     preferred_workouts |-> preferred, equipment |-> equipment, past_workouts |-> past]

\* past_workouts given as a list, or left at its default None
PastList(items) == [none |-> FALSE, items |-> items]
PastNone == [none |-> TRUE, items |-> <<>>]

Disliked == Rec(TRUE, "Strength", <<2>>, "High")
Liked == Rec(TRUE, "Strength", <<5>>, "High")
Skipped == Rec(FALSE, "Strength", <<5>>, "High")

Profiles ==
    { UserProfile("U1", "General Fitness", "Beginner", {"Knee Injury"}, {},
                  {"Dumbbells"}, PastList(<<>>)),
      UserProfile("U2", "Muscle Gain", "Beginner", {}, {"Strength"},
                  {"Dumbbells", "Step", "Resistance Bands"}, PastList(<<Disliked>>)),
      UserProfile("U3", "Muscle Gain", "Advanced", {}, {"Core", "HIIT"},
                  {}, PastList(<<>>)),
      UserProfile("U4", "Endurance", "Intermediate", {"Knee Injury", "Shoulder Issue"},
                  {"HIIT"}, {"Yoga Mat"}, PastList(<<>>)),
      UserProfile("U5", "Weight Loss", "Beginner", {}, {}, {"Dumbbells"}, PastNone),
      UserProfile("U6", "Weight Loss", "Intermediate", {}, {"Strength"},
                  {"Dumbbells", "Pool"}, PastList(<<>>)) }

\* the profile a UserProfile object was constructed from
Constructed(u) == CHOOSE p \in Profiles : p.user_id = u.user_id

\* what a caller may pass as last_workout
LastWorkouts == {None, Liked, Skipped, NotADict("str")}

(***************************************************************************)
(* The state machine.  last records the most recent operation on the       *)
(* engine: its inputs, the state it started from and what it gave back.    *)
(***************************************************************************)
NoCall ==
    [op |-> "UserProfile", last_workout |-> None, seed |-> 0, outcome |-> "none",
     plan |-> <<>>, degraded |-> FALSE, past_before |-> PastNone,
     repeated |-> FALSE, previous_plan |-> <<>>, adapted_template |-> <<>>]

Init ==
    /\ exercises \in Catalogs
    /\ templates \in Stores
    /\ initial_templates = templates
    /\ user \in Profiles
    /\ last = NoCall

\* the caller constructs a new UserProfile object (streamlit_app.main)
NewUserProfile(p) ==
    /\ user' = p
    /\ last' = NoCall
    /\ UNCHANGED <<exercises, templates, initial_templates>>

\* recommender.generate_workout_plan(user, last_workout), with the random
\* source in state seed; r is what the one call leaves behind and hands back
GenerateWorkoutPlan(last_workout, seed) ==
    /\ Len(user.past_workouts.items) < Len(Constructed(user).past_workouts.items) + MaxCalls
    /\ \E r \in {generate_workout_plan(exercises, templates, user, last_workout, seed)} :
       LET again == /\ last.op = "generate_workout_plan" /\ last.outcome = "plan"
                    /\ r.outcome = "plan"
                    /\ last.last_workout = last_workout /\ last.seed = seed
       IN  /\ user' = r.user
           /\ templates' = r.templates
           /\ last' = [op |-> "generate_workout_plan", last_workout |-> last_workout,
                       seed |-> seed, outcome |-> r.outcome, plan |-> r.plan,
                       degraded |-> r.degraded, past_before |-> user.past_workouts,
                       repeated |-> again,
                       previous_plan |-> IF again THEN last.plan ELSE <<>>,
                       adapted_template |-> r.adapted_template]
    /\ UNCHANGED <<exercises, initial_templates>>

Next ==
    \/ \E p \in Profiles : NewUserProfile(p)
    \/ \E last_workout \in LastWorkouts, seed \in Seeds :
           GenerateWorkoutPlan(last_workout, seed)

Spec == Init /\ [][Next]_vars

(***************************************************************************)
(* The stages of the engine called one at a time.  Each stage is a method  *)
(* of WorkoutRecommender; last records the method, its arguments and what  *)
(* it returned.                                                            *)
(***************************************************************************)
Applied(op, arg, out) == [op |-> op, arg |-> arg, out |-> out]

\* the engine as __init__ leaves it without data files
BuiltInEngine == exercises = default_exercises /\ templates = default_templates

\* injuries and equipment a profile may list
InjuryChoices == SUBSET {"Knee Injury", "Shoulder Issue"}
EquipmentChoices == SUBSET {"Dumbbells", "Step", "Pool", "Barbell", "Yoga Mat"}

\* Step 1 of generate_workout_plan: the injury pass, then the equipment pass
FilterExercises ==
    /\ last = NoCall
    /\ \E injuries \in InjuryChoices, equipment \in EquipmentChoices :
           last' = Applied("filter_exercises",
                           [injuries |-> injuries, equipment |-> equipment],
                           _filter_exercises_by_equipment(
                               _filter_exercises_by_injury(exercises, injuries),
                               equipment))
    /\ UNCHANGED <<exercises, templates, initial_templates, user>>

\* goals a profile may name
GoalChoices == {"General Fitness", "Muscle Gain", "Weight Loss", "Endurance", "Flexibility"}

\* self._get_workout_template(goal)
GetWorkoutTemplate ==
    /\ last = NoCall
    /\ \E goal \in GoalChoices :
           last' = Applied("_get_workout_template", [goal |-> goal],
                           _get_workout_template(templates, goal))
    /\ UNCHANGED <<exercises, templates, initial_templates, user>>

\* fitness levels a profile may name, one of them unknown to the engine
LevelChoices == {"Beginner", "Intermediate", "Advanced", "Expert"}

\* self._generate_progressive_parameters(fitness_level, goal), called up to
\* MaxStageCalls times in a row on one engine
GenerateProgressiveParameters ==
    LET call == IF last.op = "_generate_progressive_parameters" THEN last.arg.call + 1
                ELSE 1
    IN  /\ BuiltInEngine
        /\ last = NoCall \/ last.op = "_generate_progressive_parameters"
        /\ call <= MaxStageCalls
        /\ \E fitness_level \in LevelChoices, goal \in GoalChoices :
               last' = Applied("_generate_progressive_parameters",
                               [fitness_level |-> fitness_level, goal |-> goal,
                                call |-> call],
                               _generate_progressive_parameters(fitness_level, goal))
        /\ UNCHANGED <<exercises, templates, initial_templates, user>>

\* day mappings a resolved template may hold: every week over a few types per
\* day (Active Recovery as an earlier adaptation leaves it), a mapping whose
\* keys are not in week order, and one that leaves days out
WeekStructures ==
    { DayMap(mo, tu, we, th, fr, sa, su) :
          mo \in {"Strength", "Cardio", "Rest"}, tu \in {"Strength", "Active Recovery", "Rest"},
          we \in {"Strength", "Cardio", "Rest"}, th \in {"Cardio", "Rest"},
          fr \in {"Strength", "Cardio", "Rest"}, sa \in {"Strength", "Flexibility"},
          su \in {"Rest", "Active Recovery"} }

sunday_first_structure ==
    << [k |-> "Sunday", v |-> StrV("Rest")], [k |-> "Monday", v |-> StrV("Strength")],
       [k |-> "Tuesday", v |-> StrV("Cardio")], [k |-> "Wednesday", v |-> StrV("Rest")],
       [k |-> "Thursday", v |-> StrV("Strength")], [k |-> "Friday", v |-> StrV("Rest")],
       [k |-> "Saturday", v |-> StrV("Flexibility")] >>

AdaptStructures ==
    WeekStructures \cup {sunday_first_structure, loaded_templates[3].structure}

PreferenceChoices == SUBSET {"HIIT", "Strength", "Core"}

\* self._adapt_template_to_preferences(template, preferred_types, fitness_level)
AdaptTemplateToPreferences ==
    /\ BuiltInEngine
    /\ last = NoCall
    /\ \E structure \in AdaptStructures, preferred_types \in PreferenceChoices,
          fitness_level \in LevelChoices :
           LET template == [goal |-> "General Fitness", structure |-> structure,
                            shared |-> 0]
           IN  last' = Applied("_adapt_template_to_preferences",
                               [template |-> template,
                                preferred_types |-> preferred_types,
                                fitness_level |-> fitness_level],
                               _adapt_template_to_preferences(template, preferred_types,
                                                              fitness_level))
    /\ UNCHANGED <<exercises, templates, initial_templates, user>>

\* the frequency-form structures of _get_default_templates
frequency_templates ==
    { << [k |-> "HIIT", v |-> IntV(3)], [k |-> "Cardio", v |-> IntV(2)],
         [k |-> "Strength", v |-> IntV(1)], [k |-> "Flexibility", v |-> IntV(1)] >>,
      << [k |-> "Strength", v |-> IntV(4)], [k |-> "Core", v |-> IntV(1)],
         [k |-> "Cardio", v |-> IntV(1)] >>,
      << [k |-> "Cardio", v |-> IntV(3)], [k |-> "Circuit", v |-> IntV(2)] >>,
      << [k |-> "Strength", v |-> IntV(2)], [k |-> "Cardio", v |-> IntV(2)],
         [k |-> "Flexibility", v |-> IntV(1)], [k |-> "Core", v |-> IntV(1)] >>,
      << [k |-> "Mobility", v |-> IntV(3)], [k |-> "Flexibility", v |-> IntV(2)],
         [k |-> "Low-Impact", v |-> IntV(2)] >> }

\* frequency-form structures: up to three distinct types in any order, each
\* with a count in 0..MaxCount
FrequencyEntries ==
    { [k |-> t, v |-> IntV(n)] : t \in {"Strength", "Cardio", "Flexibility"},
                                 n \in 0..MaxCount }

FrequencyStructures ==
    {<<>>} \cup { <<a>> : a \in FrequencyEntries }
           \cup { <<a, b>> : a, b \in FrequencyEntries }
           \cup { <<a, b, c>> : a, b, c \in FrequencyEntries }

DistinctKeys(structure) ==
    \A i, j \in 1..Len(structure) : i # j => structure[i].k # structure[j].k

\* the structures a template handed to _create_day_schedule may hold: the
\* frequency forms, one with a value that is no count, and day mappings
ScheduleStructures ==
    { st \in FrequencyStructures : DistinctKeys(st) }
        \cup frequency_templates
        \cup { << [k |-> "Strength", v |-> IntV(2)], [k |-> "focus", v |-> StrV("Legs")] >>,
               default_structure, sunday_first_structure, loaded_templates[3].structure }

\* self._create_day_schedule(template)
CreateDaySchedule ==
    /\ BuiltInEngine
    /\ last = NoCall
    /\ \E structure \in ScheduleStructures :
           LET template == [goal |-> "General Fitness", structure |-> structure,
                            shared |-> 0]
           IN  last' = Applied("_create_day_schedule", [template |-> template],
                               _create_day_schedule(template))
    /\ UNCHANGED <<exercises, templates, initial_templates, user>>

\* records a history may hold: liked, disliked and skipped Strength workouts,
\* a completed Cardio workout without a satisfaction, and a mild one
HistoryRecords ==
    { Liked, Disliked, Skipped, Rec(TRUE, "Cardio", <<>>, "Moderate"),
      Rec(TRUE, "Cardio", <<4>>, "Low") }

Histories == UNION { [1..n -> HistoryRecords] : n \in 0..MaxHistory }

\* self._apply_user_preferences(exercises, preferred_types, fitness_level,
\* past_workouts) on the whole catalog; the scorer does not read the store
ApplyUserPreferences ==
    /\ templates = default_templates
    /\ last = NoCall
    /\ \E preferred_types \in PreferenceChoices, fitness_level \in LevelChoices,
          past \in Histories :
           last' = Applied("_apply_user_preferences",
                           [exercises |-> exercises, preferred_types |-> preferred_types,
                            fitness_level |-> fitness_level, past_workouts |-> past],
                           _apply_user_preferences(exercises, preferred_types,
                                                   fitness_level, past))
    /\ UNCHANGED <<exercises, templates, initial_templates, user>>

\* Step 3 of generate_workout_plan on the list the scorer returned:
\* self._balance_muscle_groups(self._categorize_exercises(preferred_exercises))
BalanceMuscleGroups ==
    /\ last.op = "_apply_user_preferences"
    /\ LET categorized == _categorize_exercises(last.out)
       IN  last' = Applied("_balance_muscle_groups", [categorized |-> categorized],
                           _balance_muscle_groups(categorized))
    /\ UNCHANGED <<exercises, templates, initial_templates, user>>

\* the engines the stages are called on: every catalog with the built-in
\* store, and every store (one emptied by its owner included) with the
\* built-in catalog
MethodCatalogs == {default_exercises, loaded_exercises, gym_exercises, <<>>}
MethodStores ==
    {default_templates, loaded_templates, muscle_gain_templates, late_week_templates, <<>>}

MethodInit ==
    /\ \/ exercises \in MethodCatalogs /\ templates = default_templates
       \/ exercises = default_exercises /\ templates \in MethodStores
    /\ initial_templates = templates
    /\ user = CHOOSE p \in Profiles : p.user_id = "U1"
    /\ last = NoCall

MethodNext ==
    \/ FilterExercises
    \/ GetWorkoutTemplate
    \/ GenerateProgressiveParameters
    \/ AdaptTemplateToPreferences
    \/ CreateDaySchedule
    \/ ApplyUserPreferences
    \/ BalanceMuscleGroups

MethodSpec == MethodInit /\ [][MethodNext]_vars

(***************************************************************************)
(* Observations of the most recent call.                                   *)
(***************************************************************************)
Called == last.op = "generate_workout_plan"

PlanReturned == Called /\ last.outcome = "plan"

\* the day entries of the returned plan
PlanDays == last.plan[1].days

\* every exercise instance placed in some day of the returned plan
SelectedExercises == UNION {Range(PlanDays[i].exercises) : i \in 1..Len(PlanDays)}

IsRestType(type) == IsStr(type, "Rest") \/ IsStr(type, "Active Recovery")

\* the exercises that reach the scorer for the current user
Survivors == AvailableExercises(exercises, user.injuries, user.equipment)

\* the user owns nothing that any catalog exercise asks for
NoEquipmentInCommon ==
    \A i \in 1..Len(exercises) : exercises[i].equipment_needed \cap user.equipment = {}

(***************************************************************************)
(* Claims.                                                                 *)
(***************************************************************************)

\* C1: no exercise placed in any day of a returned plan has an
\* injury_restriction that is also in the user's injuries, on every path,
\* the bodyweight-only fallback included.
C1_NoRestrictedExerciseInPlan ==
    PlanReturned =>
        \A e \in SelectedExercises : e.injury_restrictions \cap user.injuries = {}

\* C2: every returned plan has exactly 7 day entries, keyed Monday..Sunday in
\* that order, each with a non-null type and an exercises list, with
\* week_number 1 and the user's user_id.
C2_SevenDaysInOrder ==
    PlanReturned =>
        /\ Len(PlanDays) = 7
        /\ \A i \in 1..Len(PlanDays) :
              /\ i <= 7 /\ PlanDays[i].day = days[i]
              /\ PlanDays[i].type.kind # "none"
              /\ Len(PlanDays[i].exercises) >= 0
        /\ last.plan[1].week_number = 1
        /\ last.plan[1].user_id = user.user_id

\* C2 witness: a plan came back whose week mixes a day with exercises and a
\* day the template left out (typed Rest by default).
C2_Witness ==
    /\ PlanReturned
    /\ \E i \in 1..Len(PlanDays) : PlanDays[i].exercises # <<>>
    /\ \E i \in 1..Len(PlanDays) :
          /\ IsStr(PlanDays[i].type, "Rest")
          /\ ResolveIndex(templates, user.goal) # 0
          /\ ~HasKey(templates[ResolveIndex(templates, user.goal)].structure, days[i])

\* C3: in every returned plan a Rest or Active Recovery day has no exercises,
\* and a day of any other type has between 0 and 3 exercises, all distinct.
C3_RestEmptyOthersAtMostThree ==
    PlanReturned =>
        \A i \in 1..Len(PlanDays) :
            LET exs == PlanDays[i].exercises
            IN  /\ IsRestType(PlanDays[i].type) => exs = <<>>
                /\ Len(exs) <= 3
                /\ \A j, k \in 1..Len(exs) : j # k => exs[j].name # exs[k].name

\* C3 witness: one plan holds a day with 3 exercises drawn from a larger pool,
\* a Rest day and an Active Recovery day.
C3_Witness ==
    /\ PlanReturned
    /\ \E i \in 1..Len(PlanDays) :
          /\ Len(PlanDays[i].exercises) = 3
          /\ Len(SelectSeq(Survivors,
                           LAMBDA e : e.exercise_type = PlanDays[i].type.s)) > 3
    /\ \E i \in 1..Len(PlanDays) : IsStr(PlanDays[i].type, "Rest")

\* C3 witness, second case: a plan with an Active Recovery day.
C3_WitnessActiveRecovery ==
    /\ PlanReturned
    /\ \E i \in 1..Len(PlanDays) : IsStr(PlanDays[i].type, "Active Recovery")

C6_AppendsExactlyOnce ==
    (Called /\ last.last_workout # None) =>
        /\ ~user.past_workouts.none
        /\ user.past_workouts.items = Append(last.past_before.items, last.last_workout)

\* C7: if the user's equipment has no item in common with the
\* equipment_needed of any catalog exercise, every exercise selected on any
\* day of the returned plan has an empty equipment_needed.
C7_NoEquipmentNoEquipmentExercises ==
    (PlanReturned /\ NoEquipmentInCommon) =>
        \A e \in SelectedExercises : e.equipment_needed = {}

\* C7 witness: a user who owns equipment, none of it asked for by the
\* catalog, got a plan with exercises from a catalog that has exercises
\* needing equipment.
C7_Witness ==
    /\ PlanReturned /\ NoEquipmentInCommon
    /\ user.equipment # {}
    /\ SelectedExercises # {}
    /\ \E i \in 1..Len(exercises) : exercises[i].equipment_needed # {}

\* C8 as stated: with the same seed, two calls in a row on the same engine
\* with the same user profile object and the same last_workout return
\* identical exercise selections on every day.
C8_SameSeedSameSelections ==
    last.repeated =>
        \A i \in 1..Len(PlanDays) :
            PlanDays[i].exercises = last.previous_plan[1].days[i].exercises

\* C8 amended: with the same seed, two calls in a row with the same user
\* profile object and the same last_workout return identical exercise
\* selections on every day when the submitted record is not marked completed
\* (the scorer then ignores the record that the first call appended).
C8_SameSeedSameSelectionsUnlessCompleted ==
    (last.repeated /\ ~last.last_workout.completed) =>
        \A i \in 1..Len(PlanDays) :
            PlanDays[i].exercises = last.previous_plan[1].days[i].exercises

\* C8 witness: the second of two such calls returned a plan with exercises,
\* for a user whose history holds a completed record, after the first call
\* had changed the template store.
C8_Witness ==
    /\ last.repeated /\ ~last.last_workout.completed
    /\ SelectedExercises # {}
    /\ \E i \in 1..Len(user.past_workouts.items) : user.past_workouts.items[i].completed
    /\ templates # initial_templates

\* C9: after any sequence of calls every template in the store, its
\* structure included, equals what it was when the engine was constructed.
C9_StoreNeverChanges == templates = initial_templates

\* C10: if a stage inside the try block raises AttributeError, the call does
\* not fail: it falls back to defaults, continues and returns a 7-day plan.
C10_DegradedCallReturnsPlan ==
    (Called /\ last.degraded) => (last.outcome = "plan" /\ Len(last.plan[1].days) = 7)

\* C11: the two-pass filter keeps an exercise exactly when none of its
\* injury_restrictions is among the user's injuries and its equipment_needed
\* is empty or has at least one item the user owns, and it keeps the catalog
\* order; on the 8 built-in exercises with injuries {Knee Injury} and
\* equipment {Dumbbells} it removes Step-Ups, Stationary Bike and Elliptical
\* and keeps Dumbbell Thrusters.
C11_TwoPassFilter ==
    last.op = "filter_exercises" =>
        LET out == last.out
            names == {out[j].name : j \in 1..Len(out)}
            Kept(e) == /\ \A r \in e.injury_restrictions : r \notin last.arg.injuries
                       /\ \/ e.equipment_needed = {}
                          \/ \E q \in e.equipment_needed : q \in last.arg.equipment
            kept == {i \in 1..Len(exercises) : Kept(exercises[i])}
        IN  /\ Len(out) = Cardinality(kept)
            /\ \A i \in kept :
                   out[Cardinality({i2 \in kept : i2 <= i})] = exercises[i]
            /\ (/\ exercises = default_exercises
                 /\ last.arg.injuries = {"Knee Injury"}
                 /\ last.arg.equipment = {"Dumbbells"}) =>
                    /\ {"Step-Ups", "Stationary Bike", "Elliptical"} \cap names = {}
                    /\ "Dumbbell Thrusters" \in names

\* C11 witness: the filter ran on the 8 built-in exercises for injuries
\* {Knee Injury} and equipment {Dumbbells} and kept some, not all, of them.
C11_Witness ==
    /\ last.op = "filter_exercises"
    /\ exercises = default_exercises
    /\ last.arg.injuries = {"Knee Injury"}
    /\ last.arg.equipment = {"Dumbbells"}
    /\ Len(last.out) \in 1..7

\* C12: the resolver returns the last stored template whose goal is the
\* requested one; failing that the last General Fitness template; failing
\* that the built-in default (Strength, Cardio, Core, Strength, Cardio,
\* Flexibility, Rest).  A chosen structure that is no mapping, or names none
\* of Monday, Tuesday, Wednesday, is replaced by the built-in day mapping.
\* With an empty store every goal yields the built-in default.
C12_ResolverPicksLastMatch ==
    last.op = "_get_workout_template" =>
        LET out == last.out
            Matches(g) == {i \in 1..Len(templates) : templates[i].goal = g}
            Latest(S) == CHOOSE i \in S : \A j \in S : j <= i
            builtin == DayMap("Strength", "Cardio", "Core", "Strength", "Cardio",
                              "Flexibility", "Rest")
            chosen == IF Matches(last.arg.goal) # {}
                      THEN <<templates[Latest(Matches(last.arg.goal))]>>
                      ELSE IF Matches("General Fitness") # {}
                      THEN <<templates[Latest(Matches("General Fitness"))]>>
                      ELSE <<>>
            Usable(t) == /\ t.is_dict
                         /\ \E i \in 1..Len(t.structure) :
                                t.structure[i].k \in {"Monday", "Tuesday", "Wednesday"}
        IN  /\ chosen = <<>> =>
                   out.goal = "General Fitness" /\ out.structure = builtin
            /\ chosen # <<>> =>
                   /\ out.goal = chosen[1].goal
                   /\ out.structure = IF Usable(chosen[1]) THEN chosen[1].structure
                                      ELSE builtin
            /\ templates = <<>> =>
                   out.goal = "General Fitness" /\ out.structure = builtin

\* C12 witness: the store holds two templates for the requested goal with
\* different structures, and the resolver returned the later one's.
C12_Witness ==
    /\ last.op = "_get_workout_template"
    /\ \E i, j \in 1..Len(templates) :
          /\ i < j
          /\ templates[i].goal = last.arg.goal /\ templates[j].goal = last.arg.goal
          /\ templates[i].structure # templates[j].structure
          /\ last.out.structure = templates[j].structure

\* C13: on every day of a returned plan whose type T is neither Rest nor
\* Active Recovery, the candidate pool is every exercise that survived
\* filtering and whose exercise_type matches one of T's synonyms (for Core:
\* Strength-type exercises that train Core); the day's list is empty only when
\* that pool is empty, and otherwise holds min(k, pool size) exercises of the
\* pool with k 2 or 3.
C13_PoolIsEverySynonymMatch ==
    PlanReturned =>
        \A i \in 1..Len(PlanDays) :
            (PlanDays[i].type.kind = "str" /\ ~IsRestType(PlanDays[i].type)) =>
                LET pool == TypeExercises(Survivors, PlanDays[i].type.s)
                    exs == PlanDays[i].exercises
                IN  /\ exs = <<>> => pool = <<>>
                    /\ pool # <<>> =>
                           /\ Len(exs) \in {Min2(2, Len(pool)), Min2(3, Len(pool))}
                           /\ \A j \in 1..Len(exs) :
                                  \E k \in 1..Len(pool) : pool[k].name = exs[j].name

\* C14: every exercise instance of a returned plan carries single concrete
\* values for sets, reps and rest_period: the value of the catalog record when
\* it defines one, and otherwise the minimum of the progressive-parameter
\* range for the user's fitness level and goal, never the whole range.
C14_InstancesCarrySingleValues ==
    PlanReturned =>
        LET params == _generate_progressive_parameters(user.fitness_level, user.goal)
            record(e) == CHOOSE c \in Range(exercises) : c.name = e.name
            Single(value, own, range) ==
                /\ value.kind = "number"
                /\ value.min = IF own # <<>> THEN own[1] ELSE range.min
        IN  \A e \in SelectedExercises :
                /\ Single(e.sets, record(e).sets, params.sets)
                /\ Single(e.reps, record(e).reps, params.reps)
                /\ Single(e.rest_period, record(e).rest_period, params.rest)

\* C15: at every call in a sequence of calls on one engine, the progressive
\* parameters are the base ranges of the level (Beginner 2-3 sets, 8-12 reps,
\* 60-90 rest; Intermediate 3-4, 10-15, 45-75; Advanced 3-5, 12-20, 30-60; an
\* unknown level as Beginner) with the goal adjustment applied exactly once
\* (Muscle Gain: min sets +1, max rest +15; Endurance: min and max reps +4,
\* max rest -15); nothing accumulates and every range has min <= max.
C15_ParametersAdjustedOnce ==
    last.op = "_generate_progressive_parameters" =>
        LET level == last.arg.fitness_level
            goal == last.arg.goal
            out == last.out
            R(lo, hi) == [min |-> lo, max |-> hi]
            base == CASE level = "Intermediate" -> <<R(3, 4), R(10, 15), R(45, 75)>>
                      [] level = "Advanced" -> <<R(3, 5), R(12, 20), R(30, 60)>>
                      [] OTHER -> <<R(2, 3), R(8, 12), R(60, 90)>>
            d == CASE goal = "Muscle Gain" -> <<R(1, 0), R(0, 0), R(0, 15)>>
                   [] goal = "Endurance" -> <<R(0, 0), R(4, 4), R(0, -15)>>
                   [] OTHER -> <<R(0, 0), R(0, 0), R(0, 0)>>
            Adjusted(k) == R(base[k].min + d[k].min, base[k].max + d[k].max)
        IN  /\ out.sets = Adjusted(1) /\ out.reps = Adjusted(2) /\ out.rest = Adjusted(3)
            /\ out.sets.min <= out.sets.max
            /\ out.reps.min <= out.reps.max
            /\ out.rest.min <= out.rest.max

\* C15 witness: a later call of a sequence, for a Beginner with goal Muscle
\* Gain, returned sets 3-3 and rest 60-105.
C15_Witness ==
    /\ last.op = "_generate_progressive_parameters"
    /\ last.arg.call > 1
    /\ last.arg.fitness_level = "Beginner" /\ last.arg.goal = "Muscle Gain"
    /\ last.out.sets = [min |-> 3, max |-> 3]
    /\ last.out.rest = [min |-> 60, max |-> 105]

\* the adapter was called: its template's structure before and after
Adapted == last.op = "_adapt_template_to_preferences"

RestDaysOf(structure) == {i \in 1..Len(structure) : IsStr(structure[i].v, "Rest")}

\* C16: for an Advanced user and a template with more than one Rest day the
\* adapter turns every Rest day but the last in iteration order into Active
\* Recovery, leaving exactly one Rest day; with at most one Rest day it
\* changes no Rest day.  With preferred_workouts {Core} every Strength day
\* comes out as Core.
C16_AdvancedKeepsLastRest ==
    (Adapted /\ last.arg.fitness_level = "Advanced") =>
        LET before == last.arg.template.structure
            after == last.out.structure
            rests == RestDaysOf(before)
        IN  /\ Len(after) = Len(before)
            /\ Cardinality(rests) > 1 =>
                   /\ \A i \in rests :
                          IF \A j \in rests : j <= i
                          THEN IsStr(after[i].v, "Rest")
                          ELSE IsStr(after[i].v, "Active Recovery")
                   /\ Cardinality(RestDaysOf(after)) = 1
            /\ Cardinality(rests) <= 1 =>
                   \A i \in rests : IsStr(after[i].v, "Rest")
            /\ last.arg.preferred_types = {"Core"} =>
                   \A i \in 1..Len(before) :
                       IsStr(before[i].v, "Strength") => IsStr(after[i].v, "Core")

\* C16 witness: an Advanced user who prefers Core, a mapping not in week
\* order with three Rest days and a Strength day: two Rest days became Active
\* Recovery and the one that stayed is not the last day of the week.
C16_Witness ==
    /\ Adapted /\ last.arg.fitness_level = "Advanced"
    /\ last.arg.preferred_types = {"Core"}
    /\ last.arg.template.structure = sunday_first_structure
    /\ DictGet(last.out.structure, "Friday", NoneV) = StrV("Rest")
    /\ DictGet(last.out.structure, "Sunday", NoneV) = StrV("Active Recovery")
    /\ DictGet(last.out.structure, "Monday", NoneV) = StrV("Core")

\* C17: for a Beginner the adapter sets Wednesday to Rest exactly when fewer
\* than 2 days of the template are Rest, and otherwise changes no day to or
\* from Rest; the preference rules never retype a Rest day, so Wednesday is
\* Rest in the adapted template and in the week built from it.
C17_BeginnerMidWeekRest ==
    (Adapted /\ last.arg.fitness_level = "Beginner") =>
        LET before == last.arg.template.structure
            after == last.out.structure
            forced == Cardinality(RestDaysOf(before)) < 2
            SameRest(i) == IsStr(before[i].v, "Rest") <=> IsStr(after[i].v, "Rest")
        IN  /\ forced =>
                   /\ DictGet(after, "Wednesday", NoneV) = StrV("Rest")
                   /\ _create_day_schedule(last.out)[3] = StrV("Rest")
                   /\ \A i \in 1..Len(before) : before[i].k # "Wednesday" => SameRest(i)
            /\ ~forced =>
                   /\ Len(after) = Len(before)
                   /\ \A i \in 1..Len(before) : SameRest(i)

\* C17 witness: a Beginner who prefers Core, a week with one Rest day whose
\* Wednesday is a Strength day: Wednesday came out as Rest, not as Core.
C17_Witness ==
    /\ Adapted /\ last.arg.fitness_level = "Beginner"
    /\ "Core" \in last.arg.preferred_types
    /\ Cardinality(RestDaysOf(last.arg.template.structure)) = 1
    /\ DictGet(last.arg.template.structure, "Wednesday", NoneV) = StrV("Strength")
    /\ DictGet(last.out.structure, "Wednesday", NoneV) = StrV("Rest")

\* C18: on every day that is neither Rest nor Active Recovery after the level
\* rule, exactly the first applicable preference rule applies: HIIT preferred
\* on Tuesday or Thursday gives HIIT; else Strength preferred on Monday or
\* Friday gives Strength; else Core preferred on a Strength day gives Core;
\* else the type stays.  Rest and Active Recovery days are never changed.
C18_FirstPreferenceRuleWins ==
    Adapted =>
        LET levelled == LevelRule(last.arg.template.structure, last.arg.fitness_level)
            after == last.out.structure
            P == last.arg.preferred_types
            Expected(day, type) ==
                IF type \in {"Rest", "Active Recovery"} THEN type
                ELSE IF "HIIT" \in P /\ day \in {"Tuesday", "Thursday"} THEN "HIIT"
                ELSE IF "Strength" \in P /\ day \in {"Monday", "Friday"} THEN "Strength"
                ELSE IF "Core" \in P /\ type = "Strength" THEN "Core"
                ELSE type
        IN  /\ Len(after) = Len(levelled)
            /\ \A i \in 1..Len(levelled) :
                   /\ after[i].k = levelled[i].k
                   /\ after[i].v = StrV(Expected(levelled[i].k, levelled[i].v.s))

\* C18 witness: with HIIT, Strength and Core all preferred, a Monday Strength
\* day stayed Strength, a Wednesday Strength day became Core, a Tuesday
\* Strength day became HIIT and a Thursday Rest day stayed Rest.
C18_Witness ==
    /\ Adapted
    /\ last.arg.preferred_types = {"HIIT", "Strength", "Core"}
    /\ \A d \in {"Monday", "Tuesday", "Wednesday"} :
          DictGet(last.arg.template.structure, d, NoneV) = StrV("Strength")
    /\ DictGet(last.arg.template.structure, "Thursday", NoneV) = StrV("Rest")
    /\ DictGet(last.out.structure, "Monday", NoneV) = StrV("Strength")
    /\ DictGet(last.out.structure, "Tuesday", NoneV) = StrV("HIIT")
    /\ DictGet(last.out.structure, "Wednesday", NoneV) = StrV("Core")
    /\ DictGet(last.out.structure, "Thursday", NoneV) = StrV("Rest")

\* _create_day_schedule was called on a structure without a weekday key
ScheduleMade == last.op = "_create_day_schedule"

FrequencyForm(structure) ==
    \A i \in 1..Len(structure) : structure[i].k \notin Range(days)

\* how many entries the first i pairs of a frequency-form structure expand to
ExpandedUpTo(structure, i) ==
    SumSeq([j \in 1..i |-> IF structure[j].v.kind = "int" /\ structure[j].v.n > 0
                           THEN structure[j].v.n ELSE 0])

\* the expansion of the pairs in mapping order, padded with Rest to length 7
PaddedExpansion(structure) ==
    LET total == ExpandedUpTo(structure, Len(structure))
    IN  [p \in 1..(IF total < 7 THEN 7 ELSE total) |->
            IF p <= total
            THEN StrV(structure[CHOOSE i \in 1..Len(structure) :
                                   /\ ExpandedUpTo(structure, i - 1) < p
                                   /\ p <= ExpandedUpTo(structure, i)].k)
            ELSE StrV("Rest")]

LightType(type) == IsStr(type, "Flexibility") \/ IsStr(type, "Mobility")

\* the number of Rests inserted before position p of the padded expansion
RECURSIVE RestsInsertedBefore(_, _)
RestsInsertedBefore(raw, p) ==
    IF p <= 1 THEN 0
    ELSE LET r == RestsInsertedBefore(raw, p - 1)
         IN  IF (p - 1 - r) % 3 = 0 /\ ~LightType(raw[p - 1]) THEN r + 1 ELSE r

\* C19: _create_day_schedule returns exactly 7 types for any structure; for a
\* frequency-form structure they are the first 7 entries of the expansion of
\* the pairs in mapping order, padded with Rest to length 7, with a Rest
\* inserted after an entry whenever (1-based position - rests inserted so
\* far) is a multiple of 3 and the entry is neither Flexibility nor Mobility.
C19_SevenTypesWithInsertedRests ==
    ScheduleMade =>
        /\ Len(last.out) = 7
        /\ FrequencyForm(last.arg.template.structure) =>
               LET raw == PaddedExpansion(last.arg.template.structure)
               IN  \A p \in 1..Len(raw) :
                       LET r == RestsInsertedBefore(raw, p)
                           follows == (p - r) % 3 = 0 /\ ~LightType(raw[p])
                       IN  /\ p + r <= 7 => last.out[p + r] = raw[p]
                           /\ (follows /\ p + r + 1 <= 7) =>
                                  last.out[p + r + 1] = StrV("Rest")

\* C19 witness: the frequency form Strength 4, Core 1, Cardio 1 gave
\* Strength, Strength, Strength, Rest, Strength, Rest, Core: two Rests were
\* inserted and the week was cut at 7.
C19_Witness ==
    /\ ScheduleMade
    /\ last.arg.template.structure =
           << [k |-> "Strength", v |-> IntV(4)], [k |-> "Core", v |-> IntV(1)],
              [k |-> "Cardio", v |-> IntV(1)] >>
    /\ last.out = << StrV("Strength"), StrV("Strength"), StrV("Strength"), StrV("Rest"),
                     StrV("Strength"), StrV("Rest"), StrV("Core") >>

\* C20: the week built from a frequency-form structure has at most 2
\* consecutive workout days: no 3 consecutive entries are all workouts other
\* than Rest, Flexibility and Mobility.
C20_AtMostTwoConsecutiveWorkouts ==
    (ScheduleMade /\ FrequencyForm(last.arg.template.structure)) =>
        \A i \in 1..(Len(last.out) - 2) :
            \E j \in i..(i + 2) :
                IsStr(last.out[j], "Rest") \/ LightType(last.out[j])

\* the scorer was called
Scored == last.op = "_apply_user_preferences"

\* the score of spec section 4.2 for exercise e under the arguments of the
\* latest scorer call, in half points
SpecScore(e) ==
    LET past == last.arg.past_workouts
        level == last.arg.fitness_level
        completed == {i \in 1..Len(past) : past[i].completed}
        Sat(i) == IF past[i].satisfaction = <<>> THEN 3 ELSE past[i].satisfaction[1]
        Total(S) == SumSeq([i \in 1..Len(past) |-> IF i \in S THEN Sat(i) ELSE 0])
        Bonus(S) == IF S = {} THEN 0
                    ELSE IF Total(S) >= 4 * Cardinality(S) THEN 4
                    ELSE IF Total(S) >= 3 * Cardinality(S) THEN 2
                    ELSE 0
    IN    (IF e.exercise_type \in last.arg.preferred_types THEN 4 ELSE 0)
        + (IF e.difficulty = level THEN 2 ELSE 0)
        + (IF e.sets # <<>> /\ e.reps # <<>> THEN 1 ELSE 0)
        + Bonus({i \in completed : past[i].intensity = e.intensity})
        + Bonus({i \in completed : past[i].workout_type = e.exercise_type})
        + (IF <<level, e.intensity>> \in {<<"Beginner", "Low">>,
                                          <<"Intermediate", "Moderate">>,
                                          <<"Advanced", "High">>}
           THEN 2 ELSE 0)

\* C21: the scorer returns a permutation of its input, ordered by descending
\* score (the sum of the bonuses of section 4.2, computed from the completed
\* records only, a missing satisfaction counting as 3); exercises with equal
\* score come in descending (reverse-alphabetical) order of name.
C21_ScorerSortsAPermutation ==
    Scored =>
        LET given == last.arg.exercises
            out == last.out
        IN  /\ Len(out) = Len(given)
            /\ \A e \in Range(given) \cup Range(out) :
                   Cardinality({j \in 1..Len(out) : out[j] = e})
                       = Cardinality({i \in 1..Len(given) : given[i] = e})
            /\ \A j \in 1..(Len(out) - 1) :
                   \/ SpecScore(out[j]) > SpecScore(out[j + 1])
                   \/ /\ SpecScore(out[j]) = SpecScore(out[j + 1])
                      /\ NameRank(out[j].name) > NameRank(out[j + 1].name)

\* C21 witness: with a history holding a completed record without a
\* satisfaction and a skipped one, the scorer moved an exercise ahead of its
\* catalog neighbours and left two exercises of equal score in
\* reverse-alphabetical order.
C21_Witness ==
    /\ Scored
    /\ \E i, k \in 1..Len(last.arg.past_workouts) :
          /\ last.arg.past_workouts[i].completed
          /\ last.arg.past_workouts[i].satisfaction = <<>>
          /\ ~last.arg.past_workouts[k].completed
    /\ last.out # last.arg.exercises
    /\ \E j \in 1..(Len(last.out) - 1) :
          /\ SpecScore(last.out[j]) = SpecScore(last.out[j + 1])
          /\ NameRank(last.out[j].name) > NameRank(last.out[j + 1].name)
    /\ \E j \in 1..(Len(last.out) - 1) :
          SpecScore(last.out[j]) > SpecScore(last.out[j + 1])

\* the balancer was called
Balanced == last.op = "_balance_muscle_groups"

\* the exercises of exs the single greedy pass accepts: the one set of
\* positions in which a position lies exactly when its muscle groups meet
\* those of no earlier position of the set
GreedyAccepted(exs) ==
    CHOOSE A \in SUBSET (1..Len(exs)) :
        \A i \in 1..Len(exs) :
            i \in A <=> \A j \in A : j < i =>
                            exs[j].muscle_groups \cap exs[i].muscle_groups = {}

\* C22: for each category the balancer returns a permutation of the
\* category's list: first, in input order, the exercises the greedy pass
\* accepts (pairwise disjoint muscle groups), then every other exercise in
\* input order; none is dropped or repeated.
C22_BalancerAcceptedThenRest ==
    Balanced =>
        /\ DOMAIN last.out = DOMAIN last.arg.categorized
        /\ \A ty \in DOMAIN last.arg.categorized :
               LET given == last.arg.categorized[ty]
                   out == last.out[ty]
                   A == GreedyAccepted(given)
                   rest == (1..Len(given)) \ A
               IN  /\ Len(out) = Len(given)
                   /\ \A i \in A : out[Cardinality({j \in A : j <= i})] = given[i]
                   /\ \A i \in rest :
                          out[Cardinality(A) + Cardinality({j \in rest : j <= i})] = given[i]
                   /\ \A i, j \in A :
                          i # j => given[i].muscle_groups \cap given[j].muscle_groups = {}

\* C22 witness: in some category an exercise the pass did not accept stood
\* before an accepted one, so the balancer moved it behind, and the category
\* kept all its exercises.
C22_Witness ==
    /\ Balanced
    /\ \E ty \in DOMAIN last.arg.categorized :
          LET given == last.arg.categorized[ty]
              A == GreedyAccepted(given)
          IN  /\ \E i \in 1..Len(given), j \in A : i \notin A /\ i < j
              /\ last.out[ty] # given
              /\ Len(last.out[ty]) = Len(given)

\* C23: whenever a generate_workout_plan call ends by raising an error
\* (the precondition failure or a failure in a later stage), the user's
\* past_workouts is what it was before the call: the submitted record is not
\* left in the history.
C23_FailedCallLeavesHistory ==
    (Called /\ last.outcome # "plan") => user.past_workouts = last.past_before

\* C24: in every plan that generate_workout_plan returns, the type of each
\* weekday is the value the adapted template's structure holds for that
\* weekday (Rest when the weekday is missing); the structure always has a
\* weekday key, so the frequency expansion and the optimizer's Rest insertion
\* never shape such a plan.
C24_PlanTypesAreTheAdaptedStructure ==
    PlanReturned =>
        /\ last.adapted_template # <<>>
        /\ \E i \in 1..7 : HasKey(last.adapted_template[1].structure, days[i])
        /\ \A i \in 1..7 :
               PlanDays[i].type =
                   DictGet(last.adapted_template[1].structure, days[i], StrV("Rest"))

\* C24 witness: a plan with workout days came back for a goal whose stored
\* template is frequency-form (no weekday key, counts as values).
C24_Witness ==
    /\ PlanReturned
    /\ LET i == ResolveIndex(templates, user.goal)
       IN  /\ i # 0
           /\ templates[i].is_dict
           /\ templates[i].goal = user.goal
           /\ \A j \in 1..Len(templates[i].structure) :
                  /\ templates[i].structure[j].k \notin Range(days)
                  /\ templates[i].structure[j].v.kind = "int"
    /\ \E i \in 1..7 : ~IsRestType(PlanDays[i].type)

====
